---- MODULE Spec2Model ----
(***************************************************************************)
(* WebSocketService (src/unnamed/part_003): the reconnecting WebSocket     *)
(* client.  The channel's fields are the variables; every public method,   *)
(* every transport event handler and every timer callback is one action.   *)
(* Handlers are written as operators on a record of the channel's fields   *)
(* so that a handler calling another (onclose -> attemptReconnect, the     *)
(* reconnect timer -> connect) is operator application.                    *)
(***************************************************************************)
EXTENDS Integers, Sequences, FiniteSets, TLC

\* ---------------------------------------------------------------- bounds
\* Transports alive at once (a transport is alive until its close event
\* has been delivered and the channel no longer references it).
MaxSockets == 2

\* Timer callbacks pending at once.
MaxTimers == 2

\* Clicks of the increment button.
MaxClicks == 120

\* Socket objects io() creates.
MaxIoSockets == 2

\* Times the App component is mounted.
MaxMounts == 2

\* the messages the App is given, more than the list it keeps can hold
MaxMessages == 12

\* ------------------------------------------------------ program constants
\* App: the count at which the counter goes back to 0
MAX_COUNT == 10

maxReconnectAttempts == 5
reconnectDelay == 1000
connectionTimeoutMs == 5000

\* WebSocket.readyState
CONNECTING == 0
OPEN == 1
CLOSING == 2
CLOSED == 3

\* Close codes the transport may report: normal, going away, protocol
\* error, abnormal (refused).
CloseCodes == {1000, 1001, 1002, 1006}

WebSocketStatus == {"connecting", "connected", "disconnected", "error"}

\* Outbound messages (WebSocketMessage.type) and inbound frames.
Messages == {"add", "health"}
Payloads == {"json", "garbage"}

\* Arguments of sendAddNumbers, and values Date.now() may return (in seconds,
\* to stay within 32 bits).
Numbers == {3, 5}
Clock == {1700000000, 1700000001}

\* Registrations held at once, over the three observer lists.
MaxHandlers == 2

\* The callbacks the caller owns, and the three lists they can be put on.
Handlers == {"h1", "h2"}
Lists == {"message", "error", "status"}

VARIABLES
    ctorOk,             \* whether new WebSocket(this.url) returns (TRUE) or
                        \*          throws (FALSE); fixed with the url
    socket,             \* this.socket: 0 is null, else an index of sockets
    status,             \* this.status
    reconnectAttempts,  \* this.reconnectAttempts
    sockets,            \* the WebSocket objects still alive, oldest first
    timers,             \* pending setTimeout callbacks, earliest due first
    last,               \* the step just taken, what it emitted and, for a
                        \*          close event, the retry counter before it
    userIntent,         \* history: the caller's latest connect()/disconnect()
    timedOut,           \* history: a connection timeout closed its transport
                        \*          and the caller has not called connect() since
    scheduledSinceOpen, \* history: reconnects scheduled since the last open
    messageHandlers,    \* this.messageHandlers
    errorHandlers,      \* this.errorHandlers
    statusChangeHandlers, \* this.statusChangeHandlers
    endpoint,           \* whether the server ever accepts a connection
                        \*          ("accepts") or never does ("refuses");
                        \*          fixed with the url
    transports,         \* history: transports created against an endpoint
                        \*          that refuses
    count,              \* App: the count state (useState(0))
    clicks,             \* history: clicks of the increment button
    api,                \* ApiService: the latest call, the fetch result it
                        \*          got and the promise it returned, settled
    ioOk,               \* whether io(this.url, ...) returns (TRUE) or throws
                        \*          (FALSE); fixed with the url
    sio,                \* SocketIOService: its fields, socket being 0 for
                        \*          null, else an index of ioSockets
    ioSockets,          \* the Socket objects io() has created, oldest first
    sioLast,            \* the SocketIOService step just taken, what it
                        \*          emitted, and whether the socket was
                        \*          connected or active before it
    ioMark,             \* history: the Socket objects that existed at the
                        \*          latest disconnect()
    app                 \* App: whether it is mounted, how many times it
                        \*          has been, the socketMessages state and
                        \*          (history) the messages it was given

\* the WebSocketService and its histories
channelVars == <<ctorOk, socket, status, reconnectAttempts, sockets, timers,
                 last, userIntent, timedOut, scheduledSinceOpen,
                 messageHandlers, errorHandlers, statusChangeHandlers,
                 endpoint, transports>>

\* the App component's counter
counterVars == <<count, clicks>>

\* the ApiService's latest call
apiVars == <<api>>

\* the SocketIOService, its Socket objects and its histories
socketIOVars == <<ioOk, sio, ioSockets, sioLast, ioMark>>

\* the App component's effect
appVars == <<app>>

vars == <<channelVars, counterVars, apiVars, socketIOVars, appVars>>

\* ------------------------------------------------------------- the record
\* The channel's fields together with what the running handler has emitted.
NoEffects == [notified |-> <<>>, errors |-> 0, delivered |-> 0,
              scheduled |-> <<>>, created |-> 0, wrote |-> <<>>,
              threw |-> FALSE, calls |-> <<>>]

RECURSIVE Keep(_, _)

Cur == [socket |-> socket, status |-> status,
        reconnectAttempts |-> reconnectAttempts,
        sockets |-> sockets, timers |-> timers,
        messageHandlers |-> messageHandlers,
        errorHandlers |-> errorHandlers,
        statusChangeHandlers |-> statusChangeHandlers,
        notified |-> <<>>, errors |-> 0, delivered |-> 0,
        scheduled |-> <<>>, created |-> 0, wrote |-> <<>>, threw |-> FALSE,
        calls |-> <<>>]

readyStateOf(r) == IF r.socket = 0 THEN -1 ELSE r.sockets[r.socket].readyState

\* A transport whose close event was delivered and which the channel no
\* longer references can never be observed again: it is dropped, and the
\* indices of the younger transports move down.
Dead(r, i) == r.sockets[i].closeEv /\ i # r.socket
Shift(r, i) == i - Cardinality({j \in 1..(i - 1) : Dead(r, j)})
Keep(r, lo) ==
    IF lo > Len(r.sockets) THEN <<>>
    ELSE LET rest == Keep(r, lo + 1)
         IN IF Dead(r, lo) THEN rest ELSE <<r.sockets[lo]>> \o rest
Release(r) ==
    [r EXCEPT !.sockets = Keep(r, 1),
              !.socket = IF @ = 0 THEN 0 ELSE Shift(r, @),
              !.timers = [t \in 1..Len(@) |->
                            [@[t] EXCEPT !.sock = IF @ = 0 THEN 0
                                                  ELSE Shift(r, @)]]]

\* ---------------------------------------------------------------- helpers
\* forEach that walks the list from its end
forEachReversed(list, which, arg) ==
    [i \in 1..Len(list) |->
        [list |-> which, handler |-> list[Len(list) + 1 - i], arg |-> arg]]

\* list.forEach(handler => handler(arg)): the invocations, in list order
forEach(list, which, arg) ==
    [i \in 1..Len(list) |-> [list |-> which, handler |-> list[i], arg |-> arg]]

notifyStatusChangeHandlers(r, s) ==
    [r EXCEPT !.notified = Append(@, s),
              !.calls = @ \o forEach(r.statusChangeHandlers, "status", s)]

\* setStatus without the test for a change
setStatusUnguarded(r, s) ==
    notifyStatusChangeHandlers([r EXCEPT !.status = s], s)

\* setStatus that assigns without notifying
setStatusSilent(r, s) ==
    IF r.status # s THEN [r EXCEPT !.status = s] ELSE r

\* setStatus that notifies the status it replaces
setStatusNotifiesOld(r, s) ==
    IF r.status # s
    THEN notifyStatusChangeHandlers([r EXCEPT !.status = s], r.status)
    ELSE r

setStatus(r, s) ==
    IF r.status # s
    THEN notifyStatusChangeHandlers([r EXCEPT !.status = s], s)
    ELSE r

\* notifyErrorHandlers that stops after the first handler
notifyErrorHandlersFirstOnly(r) ==
    [r EXCEPT !.errors = @ + 1,
              !.calls = @ \o forEach(IF r.errorHandlers = <<>> THEN <<>>
                                     ELSE <<Head(r.errorHandlers)>>,
                                     "error", "Error")]

notifyErrorHandlers(r) ==
    [r EXCEPT !.errors = @ + 1,
              !.calls = @ \o forEach(r.errorHandlers, "error", "Error")]

notifyMessageHandlers(r, message) ==
    [r EXCEPT !.delivered = @ + 1,
              !.calls = @ \o forEach(r.messageHandlers, "message", message)]

\* clearTimeout(connectionTimeout) in the handlers of transport id
clearTimeout(r, id) ==
    [r EXCEPT !.timers =
        SelectSeq(@, LAMBDA t : ~(t.kind = "timeout" /\ t.sock = id))]

\* WebSocket.close(): CONNECTING and OPEN become CLOSING, else nothing
socketClose(r, id) ==
    IF r.sockets[id].readyState \in {CONNECTING, OPEN}
    THEN [r EXCEPT !.sockets[id].readyState = CLOSING]
    ELSE r

\* setTimeout(callback, d).  The queue is kept in the order the callbacks
\* fall due.  A timer armed now falls due after every pending timer that was
\* armed with a delay of at most d; whether it falls due before a pending
\* timer armed with a longer delay depends on how much of that delay has
\* elapsed, which is the choice k: the number of pending timers due first.
EarliestPos(q, d) ==
    IF \E j \in 1..Len(q) : q[j].delay <= d
    THEN CHOOSE j \in 1..Len(q) :
            /\ q[j].delay <= d
            /\ \A i \in (j + 1)..Len(q) : q[i].delay > d
    ELSE 0

setTimeout(q, t, k) ==
    LET p == IF k < EarliestPos(q, t.delay) THEN EarliestPos(q, t.delay)
             ELSE IF k > Len(q) THEN Len(q) ELSE k
    IN SubSeq(q, 1, p) \o <<t>> \o SubSeq(q, p + 1, Len(q))

\* attemptReconnect with exponential instead of linear backoff
attemptReconnectExponential(r, k) ==
    IF r.reconnectAttempts >= maxReconnectAttempts
    THEN r
    ELSE LET n == r.reconnectAttempts + 1
             d == reconnectDelay * 2 ^ (n - 1)
         IN [r EXCEPT !.reconnectAttempts = n,
                      !.timers = setTimeout(@, [kind |-> "reconnect",
                                                sock |-> 0, delay |-> d], k),
                      !.scheduled = Append(@, d)]

\* attemptReconnect without this.reconnectAttempts++
attemptReconnectNoIncrement(r, k) ==
    IF r.reconnectAttempts >= maxReconnectAttempts
    THEN r
    ELSE LET d == reconnectDelay * (r.reconnectAttempts + 1)
         IN [r EXCEPT !.timers = setTimeout(@, [kind |-> "reconnect",
                                                sock |-> 0, delay |-> d], k),
                      !.scheduled = Append(@, d)]

attemptReconnect(r, k) ==
    IF r.reconnectAttempts >= maxReconnectAttempts
    THEN r
    ELSE LET n == r.reconnectAttempts + 1
             d == reconnectDelay * n
         IN [r EXCEPT !.reconnectAttempts = n,
                      !.timers = setTimeout(@, [kind |-> "reconnect",
                                                sock |-> 0, delay |-> d], k),
                      !.scheduled = Append(@, d)]

\* connect() without the early return for a CONNECTING transport
connectNoConnectingGuard(r, ok) ==
    IF readyStateOf(r) = OPEN THEN r
    ELSE LET r1 == setStatus(r, "connecting")
         IN IF ok
            THEN LET r2 == Release([r1 EXCEPT !.socket = 0])
                     id == Len(r2.sockets) + 1
                 IN [r2 EXCEPT
                       !.socket = id,
                       !.sockets = Append(@, [readyState |-> CONNECTING,
                                              opened |-> FALSE,
                                              closeEv |-> FALSE]),
                       !.timers = setTimeout(@, [kind |-> "timeout",
                                        sock |-> id,
                                        delay |-> connectionTimeoutMs], Len(@)),
                       !.created = @ + 1]
            ELSE notifyErrorHandlers(setStatus(r1, "error"))

\* connect() whose catch sets the status and tells no error observer
connectFailureSilent(r, ok) ==
    IF readyStateOf(r) = OPEN THEN r
    ELSE IF readyStateOf(r) = CONNECTING THEN r
    ELSE LET r1 == setStatus(r, "connecting")
         IN IF ok
            THEN LET r2 == Release([r1 EXCEPT !.socket = 0])
                     id == Len(r2.sockets) + 1
                 IN [r2 EXCEPT
                       !.socket = id,
                       !.sockets = Append(@, [readyState |-> CONNECTING,
                                              opened |-> FALSE,
                                              closeEv |-> FALSE]),
                       !.timers = setTimeout(@, [kind |-> "timeout",
                                        sock |-> id,
                                        delay |-> connectionTimeoutMs], Len(@)),
                       !.created = @ + 1]
            ELSE setStatus(r1, "error")

\* connect(); ok is whether new WebSocket(this.url) returns or throws
connect(r, ok) ==
    IF readyStateOf(r) = OPEN THEN r
    ELSE IF readyStateOf(r) = CONNECTING THEN r
    ELSE LET r1 == setStatus(r, "connecting")
         IN IF ok
            THEN LET r2 == Release([r1 EXCEPT !.socket = 0])
                     id == Len(r2.sockets) + 1
                 IN [r2 EXCEPT
                       !.socket = id,
                       !.sockets = Append(@, [readyState |-> CONNECTING,
                                              opened |-> FALSE,
                                              closeEv |-> FALSE]),
                       !.timers = setTimeout(@, [kind |-> "timeout",
                                        sock |-> id,
                                        delay |-> connectionTimeoutMs], Len(@)),
                       !.created = @ + 1]
            ELSE notifyErrorHandlers(setStatus(r1, "error"))

\* whether connect() would construct a transport, and whether the model
\* has room for it
connectCreates(r) == readyStateOf(r) \notin {OPEN, CONNECTING}
Room(r) == Len(Release([r EXCEPT !.socket = 0]).sockets) < MaxSockets

\* the connectionTimeout callback without this.socket.close()
connectionTimeoutNoClose(r) ==
    IF r.socket # 0 /\ readyStateOf(r) # OPEN
    THEN [setStatus(r, "disconnected")
            EXCEPT !.reconnectAttempts = maxReconnectAttempts]
    ELSE r

\* the connectionTimeout callback
connectionTimeout(r) ==
    IF r.socket # 0 /\ readyStateOf(r) # OPEN
    THEN [setStatus(socketClose(r, r.socket), "disconnected")
            EXCEPT !.reconnectAttempts = maxReconnectAttempts]
    ELSE r

\* the callback scheduled by attemptReconnect, without its test
reconnectCallbackUnguarded(r, ok) == connect(r, ok)

\* the callback scheduled by attemptReconnect
reconnectCallback(r, ok) ==
    IF r.status = "disconnected" THEN connect(r, ok) ELSE r

\* onopen without this.setStatus('connected')
onopenNoStatus(r, id) ==
    [clearTimeout(r, id) EXCEPT !.reconnectAttempts = 0]

\* onopen without clearTimeout(connectionTimeout)
onopenKeepTimeout(r, id) ==
    [setStatus(r, "connected") EXCEPT !.reconnectAttempts = 0]

onopen(r, id) ==
    [setStatus(clearTimeout(r, id), "connected")
        EXCEPT !.reconnectAttempts = 0]

\* JSON.parse(event.data): the frame "json" is the text of the message
\* {type: 'add', data: {result: 8}}; any other text makes it throw
JSONparses(p) == p = "json"
JSONparse(p) == [type |-> "add", data |-> [result |-> 8]]

\* onmessage that stamps the message before passing it on
onmessageStamped(r, id, p) ==
    IF JSONparses(p)
    THEN notifyMessageHandlers(r, JSONparse(p) @@ [timestamp |-> 0])
    ELSE r

\* onmessage that reports a parse failure to the error observers
onmessageReportsParseFailure(r, id, p) ==
    IF JSONparses(p) THEN notifyMessageHandlers(r, JSONparse(p))
    ELSE notifyErrorHandlers(r)

onmessage(r, id, p) ==
    IF JSONparses(p) THEN notifyMessageHandlers(r, JSONparse(p)) ELSE r

onerror(r, id) ==
    notifyErrorHandlers(setStatus(clearTimeout(r, id), "error"))

\* onclose that treats only 1006 as terminal
oncloseOnly1006(r, id, code, k) ==
    LET r1 == setStatus(clearTimeout(r, id), "disconnected")
    IN IF code # 1006
          /\ r1.reconnectAttempts < maxReconnectAttempts
       THEN attemptReconnect(r1, k)
       ELSE [r1 EXCEPT !.reconnectAttempts = maxReconnectAttempts]

onclose(r, id, code, k) ==
    LET r1 == setStatus(clearTimeout(r, id), "disconnected")
    IN IF code # 1006 /\ code # 1002
          /\ r1.reconnectAttempts < maxReconnectAttempts
       THEN attemptReconnect(r1, k)
       ELSE [r1 EXCEPT !.reconnectAttempts = maxReconnectAttempts]

\* disconnect() without its first line
disconnectKeepsCounter(r) ==
    LET r2 == IF r.socket # 0
              THEN [socketClose(r, r.socket) EXCEPT !.socket = 0]
              ELSE r
    IN setStatus(r2, "disconnected")

\* disconnect() that drops the reference without closing the transport
disconnectNoClose(r) ==
    LET r1 == [r EXCEPT !.reconnectAttempts = maxReconnectAttempts]
        r2 == IF r1.socket # 0 THEN [r1 EXCEPT !.socket = 0] ELSE r1
    IN setStatus(r2, "disconnected")

disconnect(r) ==
    LET r1 == [r EXCEPT !.reconnectAttempts = maxReconnectAttempts]
        r2 == IF r1.socket # 0
              THEN [socketClose(r1, r1.socket) EXCEPT !.socket = 0]
              ELSE r1
    IN setStatus(r2, "disconnected")

\* JSON.stringify(message): the text that JSON.parse maps back to message
JSONstringify(message) == [json |-> message]

\* send() without the readyState check
sendUnchecked(r, m) == [r EXCEPT !.wrote = Append(@, JSONstringify(m))]

send(r, m) ==
    IF readyStateOf(r) = OPEN
    THEN [r EXCEPT !.wrote = Append(@, JSONstringify(m))]
    ELSE [r EXCEPT !.threw = TRUE]

\* sendAddNumbers with a and b exchanged
sendAddNumbersSwapped(r, a, b, now) ==
    send(r, [type |-> "add", data |-> [a |-> b, b |-> a], timestamp |-> now])

\* now is what Date.now() returns
sendAddNumbers(r, a, b, now) ==
    send(r, [type |-> "add", data |-> [a |-> a, b |-> b], timestamp |-> now])

sendHealthCheck(r, now) ==
    send(r, [type |-> "health", timestamp |-> now])

\* The function returned by onMessage/onError/onStatusChange(handler):
\* list.filter(h => h !== handler)
filter(list, handler) == SelectSeq(list, LAMBDA h : h # handler)

onMessage(r, handler) == [r EXCEPT !.messageHandlers = Append(@, handler)]
unsubscribeMessage(r, handler) ==
    [r EXCEPT !.messageHandlers = filter(@, handler)]

onError(r, handler) == [r EXCEPT !.errorHandlers = Append(@, handler)]
unsubscribeError(r, handler) ==
    [r EXCEPT !.errorHandlers = filter(@, handler)]

\* the function returned by onStatusChange that removes the newest entry
unsubscribeStatusNewest(r, handler) ==
    [r EXCEPT !.statusChangeHandlers = SubSeq(@, 1, Len(@) - 1)]

onStatusChange(r, handler) ==
    [r EXCEPT !.statusChangeHandlers = Append(@, handler)]
unsubscribeStatus(r, handler) ==
    [r EXCEPT !.statusChangeHandlers = filter(@, handler)]

getStatus == status
isConnected == readyStateOf(Cur) = OPEN

\* ------------------------------------------------------------ ApiService
\* What fetch() hands back: a rejection (a TypeError when the request could
\* not be made, with the browser's message) or a Response.
NoFailure == [name |-> "none", message |-> ""]
Failures == {[name |-> "TypeError", message |-> "Failed to fetch"],
             [name |-> "TypeError", message |-> "Load failed"],
             [name |-> "Error", message |-> "Network error"]}
Statuses == {200, 201, 400, 404, 500}

\* A response body is text: JSON text of an object, or text that is not JSON.
JsonObjects == {[status |-> "ok", message |-> "Server is running"],
                [message |-> "Welcome to Practice API"],
                [result |-> 8],
                [error |-> "Invalid parameters"],
                [error |-> ""],
                [detail |-> "Bad Request"]}
Bodies == {[valid |-> TRUE, value |-> v] : v \in JsonObjects}
             \cup {[valid |-> FALSE, value |-> [html |-> "<html>"]]}
FetchResults ==
    {[failure |-> e, status |-> 0, body |-> [valid |-> FALSE,
                                            value |-> [html |-> "<html>"]]]
        : e \in Failures}
    \cup {[failure |-> NoFailure, status |-> s, body |-> b]
             : s \in Statuses, b \in Bodies}

\* response.ok
responseOk(response) == response.status \in 200..299

\* a settled promise
Fulfilled(value, reads) ==
    [state |-> "fulfilled", value |-> value, reads |-> reads]
Rejected(reason, reads) ==
    [state |-> "rejected", reason |-> reason, reads |-> reads]

Error(message) == [name |-> "Error", message |-> message]

\* response.json(): reads the body and parses it
json(response) ==
    IF response.body.valid
    THEN Fulfilled(response.body.value, 1)
    ELSE Rejected([name |-> "SyntaxError",
                   message |-> "Unexpected token '<'"], 1)

\* error.message.includes('fetch')
includesFetch(message) == message \in {"Failed to fetch"}

HttpError(response) == Error("HTTP error! status: " \o ToString(response.status))

\* the catch block the three methods share
catch(error, reads) ==
    IF error.name = "TypeError" /\ includesFetch(error.message)
    THEN Rejected(Error("CORS error: Unable to connect to API. Make sure the backend allows requests from this origin, or use a proxy in development."), reads)
    ELSE Rejected(error, reads)

\* getHealth returning the body whatever the status
getHealthIgnoresStatus(f) ==
    IF f.failure # NoFailure THEN catch(f.failure, 0) ELSE json(f)

getHealth(f) ==
    IF f.failure # NoFailure THEN catch(f.failure, 0)
    ELSE IF ~responseOk(f) THEN catch(HttpError(f), 0)
    ELSE json(f)

getWelcome(f) ==
    IF f.failure # NoFailure THEN catch(f.failure, 0)
    ELSE IF ~responseOk(f) THEN catch(HttpError(f), 0)
    ELSE json(f)

\* errorData.error || fallback
orElse(errorData, fallback) ==
    IF "error" \in DOMAIN errorData /\ errorData.error # ""
    THEN errorData.error ELSE fallback

\* addNumbers reporting the status whatever the body says
addNumbersIgnoresErrorField(a, b, f) ==
    IF f.failure # NoFailure THEN catch(f.failure, 0)
    ELSE IF ~responseOk(f) THEN catch(HttpError(f), 1)
    ELSE json(f)

addNumbers(a, b, f) ==
    IF f.failure # NoFailure THEN catch(f.failure, 0)
    ELSE IF ~responseOk(f)
         THEN LET errorData == json(f)
              IN IF errorData.state = "rejected"
                 THEN catch(errorData.reason, 1)
                 ELSE catch(Error(orElse(errorData.value,
                                         HttpError(f).message)), 1)
    ELSE json(f)

\* new URLSearchParams({ a: a.toString(), b: b.toString() })
URLSearchParams(a, b) == "a=" \o ToString(a) \o "&b=" \o ToString(b)

NoCall == [call |-> "none", request |-> "", response |-> [failure |-> NoFailure,
           status |-> 0, body |-> [valid |-> FALSE, value |-> [html |-> "<html>"]]],
           outcome |-> Rejected(NoFailure, 0)]

\* ------------------------------------------------------- SocketIOService
\* The service's fields and Socket objects together with what the running
\* handler has emitted.
NoSioEffects == [notified |-> <<>>, errors |-> 0, delivered |-> 0,
                 created |-> 0, connects |-> 0, disconnects |-> 0,
                 calls |-> <<>>, emitted |-> <<>>, threw |-> ""]

SioCur == [socket |-> sio.socket, status |-> sio.status,
           messageHandlers |-> sio.messageHandlers,
           errorHandlers |-> sio.errorHandlers,
           statusChangeHandlers |-> sio.statusChangeHandlers,
           pendingListeners |-> sio.pendingListeners,
           sockets |-> ioSockets] @@ NoSioEffects

\* this.socket?.connected and this.socket?.active
socketConnected(r) == r.socket # 0 /\ r.sockets[r.socket].connected
socketActive(r) == r.socket # 0 /\ r.sockets[r.socket].active

sio_setStatus(r, s) == setStatus(r, s)
sio_notifyErrorHandlers(r) == notifyErrorHandlers(r)

\* The library's Socket.  A Socket is active from its creation (autoConnect)
\* until it is destroyed, reconnecting by itself in between; own counts the
\* times connect() attached the service's listeners to it.
io(r) ==
    [r EXCEPT !.sockets = Append(@, [connected |-> FALSE, active |-> TRUE,
                                     listeners |-> <<>>, own |-> 0]),
              !.created = @ + 1]

\* the listeners connect() attaches
sio_onconnect(r) == sio_setStatus(r, "connected")

\* socket.connect()
Socket_connect(r, id) ==
    IF r.sockets[id].connected THEN r
    ELSE [r EXCEPT !.sockets[id].active = TRUE]

sio_ondisconnect(r, reason) ==
    LET r1 == sio_setStatus(r, "disconnected")
    IN IF reason = "io server disconnect" /\ r1.socket # 0
       THEN Socket_connect(r1, r1.socket)
       ELSE r1

sio_onconnect_error(r) == sio_notifyErrorHandlers(sio_setStatus(r, "error"))

sio_onwelcome(r) == notifyMessageHandlers(r, "welcome")

\* eventName.startsWith(prefix)
startsWith(eventName, prefix) ==
    /\ Len(eventName) >= Len(prefix)
    /\ SubSeq(eventName, 1, Len(prefix)) = prefix

\* the listener for every event
sio_onAny(r, eventName) ==
    IF \/ startsWith(eventName, "connect")
       \/ startsWith(eventName, "disconnect")
       \/ eventName = "error"
    THEN r
    ELSE notifyMessageHandlers(r, eventName)

\* A Socket receives an event of the server that carries a message: the
\* listener for every event runs, then the listener for that event.
emitEvent(r, id, eventName) ==
    IF r.sockets[id].own = 0 THEN r
    ELSE LET r1 == sio_onAny(r, eventName)
         IN IF eventName = "welcome" THEN sio_onwelcome(r1) ELSE r1

\* A Socket emits a reserved event: each listener set attached to it runs.
emitReserved(r, id, event, reason) ==
    IF r.sockets[id].own = 0 THEN r
    ELSE CASE event = "connect" -> sio_onconnect(r)
           [] event = "disconnect" -> sio_ondisconnect(r, reason)
           [] event = "connect_error" -> sio_onconnect_error(r)

\* socket.disconnect(): the Socket is destroyed, and tells its listeners if
\* it was connected
Socket_disconnect(r, id) ==
    LET r1 == [r EXCEPT !.sockets[id].active = FALSE,
                        !.sockets[id].connected = FALSE]
    IN IF r.sockets[id].connected
       THEN emitReserved(r1, id, "disconnect", "io client disconnect")
       ELSE r1

\* connect() without its two early returns
sio_connectUnguarded(r, ok) ==
    LET r1 == sio_setStatus([r EXCEPT !.connects = @ + 1], "connecting")
    IN IF ~ok
       THEN sio_notifyErrorHandlers(sio_setStatus(r1, "error"))
       ELSE LET id == Len(r1.sockets) + 1
            IN [io(r1) EXCEPT
                  !.socket = id,
                  !.sockets[id].listeners = @ \o r1.pendingListeners,
                  !.sockets[id].own = @ + 1,
                  !.pendingListeners = <<>>]

sio_connect(r, ok) ==
    IF socketConnected(r) THEN [r EXCEPT !.connects = @ + 1]
    ELSE IF socketActive(r) THEN [r EXCEPT !.connects = @ + 1]
    ELSE LET r1 == sio_setStatus([r EXCEPT !.connects = @ + 1], "connecting")
         IN IF ~ok
            THEN sio_notifyErrorHandlers(sio_setStatus(r1, "error"))
            ELSE LET id == Len(r1.sockets) + 1
                 IN [io(r1) EXCEPT
                       !.socket = id,
                       !.sockets[id].listeners = @ \o r1.pendingListeners,
                       !.sockets[id].own = @ + 1,
                       !.pendingListeners = <<>>]

sio_disconnect(r) ==
    LET r1 == IF r.socket # 0
              THEN [Socket_disconnect(r, r.socket) EXCEPT !.socket = 0]
              ELSE r
    IN sio_setStatus([r1 EXCEPT !.disconnects = @ + 1], "disconnected")

Listener(eventName, handler) == [event |-> eventName, handler |-> handler]

sio_on(r, eventName, handler) ==
    IF r.socket # 0
    THEN [r EXCEPT !.sockets[r.socket].listeners =
                       Append(@, Listener(eventName, handler))]
    ELSE [r EXCEPT !.pendingListeners =
                       Append(@, Listener(eventName, handler))]

\* socket.off(eventName, handler): the first such listener is removed
RECURSIVE off(_, _)
off(listeners, l) ==
    IF listeners = <<>> THEN <<>>
    ELSE IF Head(listeners) = l THEN Tail(listeners)
    ELSE <<Head(listeners)>> \o off(Tail(listeners), l)

\* the function on(eventName, handler) returns, leaving the queue alone
sio_unsubscribeOnSocketOnly(r, eventName, handler) ==
    IF r.socket # 0
    THEN [r EXCEPT !.sockets[r.socket].listeners =
                       off(@, Listener(eventName, handler))]
    ELSE r

\* the function on(eventName, handler) returns
sio_unsubscribeOn(r, eventName, handler) ==
    LET r1 == IF r.socket # 0
              THEN [r EXCEPT !.sockets[r.socket].listeners =
                                 off(@, Listener(eventName, handler))]
              ELSE r
    IN [r1 EXCEPT !.pendingListeners =
                      SelectSeq(@, LAMBDA l : l # Listener(eventName, handler))]

sio_onMessage(r, handler) == [r EXCEPT !.messageHandlers = Append(@, handler)]
sio_unsubscribeMessage(r, handler) ==
    [r EXCEPT !.messageHandlers = filter(@, handler)]

sio_onError(r, handler) == [r EXCEPT !.errorHandlers = Append(@, handler)]
sio_unsubscribeError(r, handler) ==
    [r EXCEPT !.errorHandlers = filter(@, handler)]

sio_onStatusChange(r, handler) ==
    [r EXCEPT !.statusChangeHandlers = Append(@, handler)]
sio_unsubscribeStatus(r, handler) ==
    [r EXCEPT !.statusChangeHandlers = filter(@, handler)]

\* an argument left out of a call
Undefined == [undefined |-> TRUE]

\* emit without the test for a connection
sio_emitUnchecked(r, eventName, data) ==
    [r EXCEPT !.emitted = Append(@, [event |-> eventName, data |-> data])]

sio_emit(r, eventName, data) ==
    IF socketConnected(r)
    THEN [r EXCEPT !.emitted = Append(@, [event |-> eventName, data |-> data])]
    ELSE [r EXCEPT !.threw = "Socket.IO is not connected"]

sio_sendAddNumbers(r, a, b) == sio_emit(r, "add", [a |-> a, b |-> b])

sio_sendHealthCheck(r) == sio_emit(r, "health", Undefined)

sio_getStatus(r) == r.status
sio_isConnected(r) == socketConnected(r)

\* ------------------------------------------------------------- App effect
\* The callbacks one run of the effect creates are new closures.
Closure(k) == "mount" \o ToString(k)

\* list.slice(start) for a negative start
slice(list, start) ==
    SubSeq(list, (IF Len(list) + start > 0 THEN Len(list) + start ELSE 0) + 1,
           Len(list))

\* the update that keeps one message too many
keepEleven(prev, message) == Append(slice(prev, -10), message)

\* prev => [...prev.slice(-9), message]
setSocketMessages(prev, message) == Append(slice(prev, -9), message)

\* The message observer of the effect, for each invocation in turn; a message
\* is its type and its number in the order of arrival.
RECURSIVE onMessages(_, _)
onMessages(a, calls) ==
    IF calls = <<>> THEN a
    ELSE onMessages(
            [a EXCEPT !.socketMessages =
                          setSocketMessages(@, [type |-> Head(calls).arg,
                                                n |-> a.received + 1]),
                      !.received = @ + 1],
            Tail(calls))

\* the effect's setup (the health check is the ApiService's getHealth)
setup(r, k, ok) ==
    LET h == Closure(k)
        r1 == sio_onStatusChange(r, h)
        r2 == sio_onMessage(r1, h)
        r3 == sio_onError(r2, h)
        r4 == sio_on(r3, "add-result", h)
        r5 == sio_on(r4, "health-response", h)
    IN sio_connect(r5, ok)

\* the effect's cleanup
cleanup(r, k) ==
    LET h == Closure(k)
        r1 == sio_unsubscribeStatus(r, h)
        r2 == sio_unsubscribeMessage(r1, h)
        r3 == sio_unsubscribeError(r2, h)
        r4 == sio_unsubscribeOn(r3, "add-result", h)
        r5 == sio_unsubscribeOn(r4, "health-response", h)
    IN IF sio_isConnected(r5) \/ sio_getStatus(r5) = "connecting"
       THEN sio_disconnect(r5)
       ELSE r5

\* ---------------------------------------------------------------- install
Step(r0, op, arg) ==
    \E r \in {Release(r0)} :
       /\ Len(r.timers) <= MaxTimers
       /\ UNCHANGED ctorOk
       /\ socket' = r.socket
       /\ status' = r.status
       /\ reconnectAttempts' = r.reconnectAttempts
       /\ sockets' = r.sockets
       /\ timers' = r.timers
       /\ messageHandlers' = r.messageHandlers
       /\ errorHandlers' = r.errorHandlers
       /\ statusChangeHandlers' = r.statusChangeHandlers
       /\ last' = [op |-> op, arg |-> arg,
                   before |-> IF op = "close" THEN reconnectAttempts ELSE 0,
                   notified |-> r.notified,
                   errors |-> r.errors, delivered |-> r.delivered,
                   scheduled |-> r.scheduled, created |-> r.created,
                   wrote |-> r.wrote, threw |-> r.threw, calls |-> r.calls]
       /\ scheduledSinceOpen' =
             IF op = "open" THEN 0
             ELSE scheduledSinceOpen + Len(r.scheduled)
       /\ UNCHANGED <<endpoint, counterVars, apiVars, socketIOVars, appVars>>
       /\ transports' = IF endpoint = "refuses" THEN transports + r.created
                        ELSE transports

\* The event loop runs the callback that falls due first.
Due(kind) == timers # <<>> /\ Head(timers).kind = kind

Fired == [Cur EXCEPT !.timers = Tail(timers)]

\* ---------------------------------------------------------------- actions
Constructed ==
    /\ ctorOk \in BOOLEAN
    /\ socket = 0
    /\ status = "disconnected"
    /\ reconnectAttempts = 0
    /\ sockets = <<>>
    /\ timers = <<>>
    /\ last = [op |-> "new", arg |-> 0, before |-> 0] @@ NoEffects
    /\ userIntent = "none"
    /\ timedOut = FALSE
    /\ scheduledSinceOpen = 0
    /\ messageHandlers = <<>>
    /\ errorHandlers = <<>>
    /\ statusChangeHandlers = <<>>
    /\ transports = 0
    /\ count = 0
    /\ clicks = 0
    /\ api = NoCall
    /\ sio = [socket |-> 0, status |-> "disconnected",
              messageHandlers |-> <<>>, errorHandlers |-> <<>>,
              statusChangeHandlers |-> <<>>, pendingListeners |-> <<>>]
    /\ ioSockets = <<>>
    /\ sioLast = [op |-> "new", arg |-> "", busy |-> FALSE] @@ NoSioEffects
    /\ ioMark = 0
    /\ app = [mounted |-> FALSE, mounts |-> 0, socketMessages |-> <<>>,
              received |-> 0]

Init == Constructed /\ endpoint = "accepts" /\ ioOk = TRUE

Connect ==
    /\ (connectCreates(Cur) /\ ctorOk) => Room(Cur)
    /\ Step(connect(Cur, ctorOk), "connect",
            IF userIntent = "none" THEN "fresh" ELSE "again")
    /\ userIntent' = "connect"
    /\ timedOut' = FALSE

Disconnect ==
    /\ Step(disconnect(Cur), "disconnect",
            IF last.op = "disconnect" THEN "repeated" ELSE "first")
    /\ userIntent' = "disconnect"
    /\ UNCHANGED timedOut

Send(m) ==
    /\ Step(send(Cur, [type |-> m]), "send", m)
    /\ UNCHANGED <<userIntent, timedOut>>

SendAddNumbers(a, b, now) ==
    /\ Step(sendAddNumbers(Cur, a, b, now), "sendAddNumbers",
            [a |-> a, b |-> b, now |-> now])
    /\ UNCHANGED <<userIntent, timedOut>>

SendHealthCheck(now) ==
    /\ Step(sendHealthCheck(Cur, now), "sendHealthCheck", [now |-> now])
    /\ UNCHANGED <<userIntent, timedOut>>

TransportOpen(id) ==
    /\ endpoint = "accepts"
    /\ id \in 1..Len(sockets)
    /\ sockets[id].readyState = CONNECTING
    /\ Step(onopen([Cur EXCEPT !.sockets[id].readyState = OPEN,
                               !.sockets[id].opened = TRUE], id),
            "open",
            [transport |-> IF id = socket THEN "current" ELSE "superseded",
             first |-> last.op = "connect" /\ last.arg = "fresh"])
    /\ UNCHANGED <<userIntent, timedOut>>

TransportMessage(id, p) ==
    /\ id \in 1..Len(sockets)
    /\ sockets[id].readyState = OPEN
    /\ Step(onmessage(Cur, id, p), "message", p)
    /\ UNCHANGED <<userIntent, timedOut>>

TransportError(id) ==
    /\ id \in 1..Len(sockets)
    /\ sockets[id].readyState # CLOSED
    /\ Step(onerror([Cur EXCEPT !.sockets[id].readyState = CLOSED], id),
            "error", 0)
    /\ UNCHANGED <<userIntent, timedOut>>

TransportClose(id, code, k) ==
    /\ id \in 1..Len(sockets)
    /\ ~sockets[id].closeEv
    /\ LET r == [Cur EXCEPT !.sockets[id].readyState = CLOSED,
                            !.sockets[id].closeEv = TRUE]
       IN \* each outcome of the choice k once
          /\ \A j \in 0..(k - 1) : onclose(r, id, code, j) # onclose(r, id, code, k)
          /\ Step(onclose(r, id, code, k), "close", code)
    /\ UNCHANGED <<userIntent, timedOut>>

TimeoutFires ==
    /\ Due("timeout")
    /\ Step(connectionTimeout(Fired), "timeout", 0)
    /\ timedOut' = (timedOut \/ (socket # 0 /\ Head(timers).sock = socket
                                  /\ readyStateOf(Cur) # OPEN))
    /\ UNCHANGED userIntent

ReconnectFires ==
    /\ Due("reconnect")
    /\ (status = "disconnected" /\ connectCreates(Cur) /\ ctorOk)
          => Room(Cur)
    /\ Step(reconnectCallback(Fired, ctorOk), "reconnect", 0)
    /\ UNCHANGED <<userIntent, timedOut>>

\* Subscriptions.  The caller holds the function a subscription returned
\* for as long as it likes; calling it when its handler is on the list no
\* more changes nothing, and is left out.
Registrations ==
    Len(messageHandlers) + Len(errorHandlers) + Len(statusChangeHandlers)
Registered(list, h) == \E i \in 1..Len(list) : list[i] = h
Subscription(which, h) == [list |-> which, handler |-> h]

OnMessage(h) ==
    /\ Registrations < MaxHandlers
    /\ Step(onMessage(Cur, h), "subscribe", Subscription("message", h))
    /\ UNCHANGED <<userIntent, timedOut>>

OnError(h) ==
    /\ Registrations < MaxHandlers
    /\ Step(onError(Cur, h), "subscribe", Subscription("error", h))
    /\ UNCHANGED <<userIntent, timedOut>>

OnStatusChange(h) ==
    /\ Registrations < MaxHandlers
    /\ Step(onStatusChange(Cur, h), "subscribe", Subscription("status", h))
    /\ UNCHANGED <<userIntent, timedOut>>

UnsubscribeMessage(h) ==
    /\ Registered(messageHandlers, h)
    /\ Step(unsubscribeMessage(Cur, h), "unsubscribe",
            Subscription("message", h))
    /\ UNCHANGED <<userIntent, timedOut>>

UnsubscribeError(h) ==
    /\ Registered(errorHandlers, h)
    /\ Step(unsubscribeError(Cur, h), "unsubscribe",
            Subscription("error", h))
    /\ UNCHANGED <<userIntent, timedOut>>

UnsubscribeStatus(h) ==
    /\ Registered(statusChangeHandlers, h)
    /\ Step(unsubscribeStatus(Cur, h), "unsubscribe",
            Subscription("status", h))
    /\ UNCHANGED <<userIntent, timedOut>>

Next ==
    \/ Connect
    \/ Disconnect
    \/ \E m \in Messages : Send(m)
    \/ \E id \in 1..MaxSockets : TransportOpen(id)
    \/ \E id \in 1..MaxSockets, p \in Payloads : TransportMessage(id, p)
    \/ \E id \in 1..MaxSockets : TransportError(id)
    \/ \E id \in 1..MaxSockets, code \in CloseCodes, k \in 0..MaxTimers :
          TransportClose(id, code, k)
    \/ TimeoutFires
    \/ ReconnectFires

Spec == Init /\ [][Next]_vars

\* The same channel driven by a transport that behaves as a browser's
\* WebSocket does: a connection that fails fires its error event and then,
\* in the same task, its close event with code 1006; a transport that never
\* opened closes with code 1006.
Failing(id) == sockets[id].readyState = CLOSED /\ ~sockets[id].closeEv
NoneFailing == \A id \in 1..Len(sockets) : ~Failing(id)
Conformant(id, code) ==
    /\ NoneFailing \/ Failing(id)
    /\ (Failing(id) \/ ~sockets[id].opened) => code = 1006

BrowserClose(id, code, k) ==
    /\ id \in 1..Len(sockets)
    /\ Conformant(id, code)
    /\ TransportClose(id, code, k)

NextBrowser ==
    \/ NoneFailing /\ Connect
    \/ NoneFailing /\ Disconnect
    \/ \E m \in Messages : NoneFailing /\ Send(m)
    \/ \E id \in 1..MaxSockets : NoneFailing /\ TransportOpen(id)
    \/ \E id \in 1..MaxSockets, p \in Payloads :
          NoneFailing /\ TransportMessage(id, p)
    \/ \E id \in 1..MaxSockets : NoneFailing /\ TransportError(id)
    \/ \E id \in 1..MaxSockets, code \in CloseCodes, k \in 0..MaxTimers :
          BrowserClose(id, code, k)
    \/ NoneFailing /\ TimeoutFires
    \/ NoneFailing /\ ReconnectFires

SpecBrowser == Init /\ [][NextBrowser]_vars

\* The channel against an endpoint that never accepts, with a caller that
\* calls connect() once (and may try to send).  No transport opens.  A
\* transport that is still CONNECTING may stay so for ever; one that failed
\* or was closed delivers its close event, and a timer that is due fires.
InitRefusing == Constructed /\ endpoint = "refuses" /\ ioOk = TRUE

ConnectOnce == userIntent = "none" /\ Connect

CloseEvent(id) ==
    /\ id \in 1..Len(sockets)
    /\ sockets[id].readyState # CONNECTING
    /\ \E code \in CloseCodes, k \in 0..MaxTimers : TransportClose(id, code, k)

NextRefusing ==
    \/ ConnectOnce
    \/ \E m \in Messages : Send(m)
    \/ \E id \in 1..MaxSockets : TransportError(id)
    \/ \E id \in 1..MaxSockets, code \in CloseCodes, k \in 0..MaxTimers :
          TransportClose(id, code, k)
    \/ TimeoutFires
    \/ ReconnectFires

SpecRefusing ==
    /\ InitRefusing
    /\ [][NextRefusing]_vars
    /\ WF_vars(ConnectOnce)
    /\ WF_vars(TimeoutFires)
    /\ WF_vars(ReconnectFires)
    /\ \A id \in 1..MaxSockets : WF_vars(CloseEvent(id))

\* -------------------------------------------------------------- the counter
\* the updater without the reset
incrementNoReset(prevCount) == prevCount + 1

\* the updater handleIncrement passes to setCount, with > for >=
incrementOffByOne(prevCount) ==
    LET newCount == prevCount + 1
    IN IF newCount > MAX_COUNT THEN 0 ELSE newCount

\* the updater handleIncrement passes to setCount
increment(prevCount) ==
    LET newCount == prevCount + 1
    IN IF newCount >= MAX_COUNT THEN 0 ELSE newCount

\* what data-testid="counter-display" shows
display(n) == "Count: " \o ToString(n)

HandleIncrement ==
    /\ clicks < MaxClicks
    /\ count' = increment(count)
    /\ clicks' = clicks + 1
    /\ UNCHANGED <<channelVars, apiVars, socketIOVars, appVars>>

NextCounter == HandleIncrement

SpecCounter == Init /\ [][NextCounter]_vars

\* ------------------------------------------------------ ApiService calls
GetHealth(f) ==
    /\ api' = [call |-> "getHealth", request |-> "/health", response |-> f,
               outcome |-> getHealth(f)]
    /\ UNCHANGED <<channelVars, counterVars, socketIOVars, appVars>>

GetWelcome(f) ==
    /\ api' = [call |-> "getWelcome", request |-> "/", response |-> f,
               outcome |-> getWelcome(f)]
    /\ UNCHANGED <<channelVars, counterVars, socketIOVars, appVars>>

AddNumbers(a, b, f) ==
    /\ api' = [call |-> "addNumbers",
               request |-> "/add?" \o URLSearchParams(a, b), response |-> f,
               outcome |-> addNumbers(a, b, f)]
    /\ UNCHANGED <<channelVars, counterVars, socketIOVars, appVars>>

NextApi ==
    \/ \E f \in FetchResults : GetHealth(f)
    \/ \E f \in FetchResults : GetWelcome(f)
    \/ \E a \in Numbers, b \in Numbers, f \in FetchResults : AddNumbers(a, b, f)

SpecApi == Init /\ [][NextApi]_vars

\* --------------------------------------------------- SocketIOService steps
SioStep(r, op, arg) ==
    /\ Len(r.sockets) <= MaxIoSockets
    /\ sio' = [socket |-> r.socket, status |-> r.status,
               messageHandlers |-> r.messageHandlers,
               errorHandlers |-> r.errorHandlers,
               statusChangeHandlers |-> r.statusChangeHandlers,
               pendingListeners |-> r.pendingListeners]
    /\ ioSockets' = r.sockets
    /\ sioLast' = [op |-> op, arg |-> arg,
                   busy |-> socketConnected(SioCur) \/ socketActive(SioCur),
                   notified |-> r.notified,
                   errors |-> r.errors, delivered |-> r.delivered,
                   created |-> r.created, connects |-> r.connects,
                   disconnects |-> r.disconnects, calls |-> r.calls,
                   emitted |-> r.emitted, threw |-> r.threw]
    /\ ioMark' = IF r.disconnects > 0 THEN Len(r.sockets) ELSE ioMark
    /\ UNCHANGED <<ioOk, channelVars, counterVars>>

SioConnect ==
    /\ SioStep(sio_connect(SioCur, ioOk), "connect", "")
    /\ UNCHANGED <<apiVars, appVars>>

SioDisconnect ==
    /\ SioStep(sio_disconnect(SioCur), "disconnect", "")
    /\ UNCHANGED <<apiVars, appVars>>

\* The connection is established.
IoConnect(id) ==
    /\ id <= Len(ioSockets)
    /\ ioSockets[id].active /\ ~ioSockets[id].connected
    /\ SioStep(emitReserved([SioCur EXCEPT !.sockets[id].connected = TRUE],
                            id, "connect", ""), "connect event", "")
    /\ UNCHANGED <<apiVars, appVars>>

\* A connection attempt fails.  After a failure of the transport the Socket
\* stays active and tries again by itself; when the server denies the
\* connection the Socket is destroyed first.
IoConnectError(id, denied) ==
    /\ id <= Len(ioSockets)
    /\ ioSockets[id].active /\ ~ioSockets[id].connected
    /\ SioStep(emitReserved([SioCur EXCEPT !.sockets[id].active =
                                               IF denied THEN FALSE ELSE @],
                            id, "connect_error", ""),
               "connect_error event",
               IF denied THEN "denied" ELSE "transport error")
    /\ UNCHANGED <<apiVars, appVars>>

DisconnectReasons == {"io server disconnect", "transport close"}

\* An established connection is lost.  When the server closed it the Socket
\* is destroyed first; otherwise it reconnects by itself.
IoDisconnect(id, reason) ==
    /\ id <= Len(ioSockets)
    /\ ioSockets[id].connected
    /\ SioStep(emitReserved(
                  [SioCur EXCEPT !.sockets[id].connected = FALSE,
                                 !.sockets[id].active =
                                    IF reason = "io server disconnect"
                                    THEN FALSE ELSE @],
                  id, "disconnect", reason), "disconnect event", reason)
    /\ UNCHANGED <<apiVars, appVars>>

\* the event names and payloads the caller emits
EmitEvents == {"add", "ping"}
EmitData == {Undefined, [a |-> 3, b |-> 5]}

SioEmit(e, data) ==
    /\ SioStep(sio_emit(SioCur, e, data), "emit", e)
    /\ UNCHANGED <<apiVars, appVars>>

\* the two numbers as the step's argument
Pair(a, b) == ToString(a) \o "," \o ToString(b)

SioSendAddNumbers(a, b) ==
    /\ SioStep(sio_sendAddNumbers(SioCur, a, b), "sendAddNumbers", Pair(a, b))
    /\ UNCHANGED <<apiVars, appVars>>

SioSendHealthCheck ==
    /\ SioStep(sio_sendHealthCheck(SioCur), "sendHealthCheck", "")
    /\ UNCHANGED <<apiVars, appVars>>

\* the listeners a list holds
Held(list) == {list[i] : i \in 1..Len(list)}

SioOn(e, h) ==
    /\ Len(sio.pendingListeners) < MaxHandlers
    /\ \A i \in 1..Len(ioSockets) : Len(ioSockets[i].listeners) < MaxHandlers
    /\ SioStep(sio_on(SioCur, e, h), "on", h)
    /\ UNCHANGED <<apiVars, appVars>>

SioUnsubscribeOn(e, h) ==
    /\ \/ Listener(e, h) \in Held(sio.pendingListeners)
       \/ \E i \in 1..Len(ioSockets) :
             Listener(e, h) \in Held(ioSockets[i].listeners)
    /\ SioStep(sio_unsubscribeOn(SioCur, e, h), "off", h)
    /\ UNCHANGED <<apiVars, appVars>>

NextIo ==
    \/ \E id \in 1..MaxIoSockets : IoConnect(id)
    \/ \E id \in 1..MaxIoSockets, denied \in BOOLEAN : IoConnectError(id, denied)
    \/ \E id \in 1..MaxIoSockets, reason \in DisconnectReasons :
          IoDisconnect(id, reason)

InitSocketIO == Constructed /\ endpoint = "accepts" /\ ioOk \in BOOLEAN

NextSocketIO ==
    \/ SioConnect
    \/ SioDisconnect
    \/ \E e \in {"add-result"}, h \in Handlers : SioOn(e, h)
    \/ \E e \in {"add-result"}, h \in Handlers : SioUnsubscribeOn(e, h)
    \/ \E e \in EmitEvents, data \in EmitData : SioEmit(e, data)
    \/ \E a \in Numbers, b \in Numbers : SioSendAddNumbers(a, b)
    \/ SioSendHealthCheck
    \/ NextIo

SpecSocketIO == InitSocketIO /\ [][NextSocketIO]_vars

\* ------------------------------------------------------------------- App
\* what the health check of a mount gets back
HealthResults ==
    {[failure |-> NoFailure, status |-> 200,
      body |-> [valid |-> TRUE,
                value |-> [status |-> "ok", message |-> "Server is running"]]],
     [failure |-> NoFailure, status |-> 500,
      body |-> [valid |-> FALSE, value |-> [html |-> "<html>"]]]}

Mount ==
    /\ ~app.mounted
    /\ app.mounts < MaxMounts
    /\ app' = [app EXCEPT !.mounted = TRUE, !.mounts = @ + 1]
    /\ \E f \in HealthResults :
          api' = [call |-> "getHealth", request |-> "/health",
                  response |-> f, outcome |-> getHealth(f)]
    /\ SioStep(setup(SioCur, app.mounts + 1, ioOk), "mount",
               Closure(app.mounts + 1))

Unmount ==
    /\ app.mounted
    /\ app' = [app EXCEPT !.mounted = FALSE]
    /\ SioStep(cleanup(SioCur, app.mounts), "unmount", Closure(app.mounts))
    /\ UNCHANGED apiVars

NextApp ==
    \/ Mount
    \/ Unmount
    \/ NextIo

SpecApp == InitSocketIO /\ [][NextApp]_vars

\* The App with its counter: clicks between the runs of the effect and the
\* events of the Socket.
NextAppCounter ==
    \/ HandleIncrement
    \/ NextApp

SpecAppCounter == InitSocketIO /\ [][NextAppCounter]_vars

\* the events the server sends with a message
ServerEvents == {"welcome", "add-result", "connected"}

\* The server sends an event to a connected Socket; the App's message
\* observers update its state.
IoEvent(id, e) ==
    /\ id <= Len(ioSockets)
    /\ ioSockets[id].connected
    /\ app.received < MaxMessages
    /\ \E r \in {emitEvent(SioCur, id, e)} :
          /\ SioStep(r, "event", e)
          /\ app' = onMessages(app, SelectSeq(r.calls,
                                              LAMBDA c : c.list = "message"))
    /\ UNCHANGED apiVars

NextMessages ==
    \/ NextApp
    \/ \E id \in 1..MaxIoSockets, e \in ServerEvents : IoEvent(id, e)

SpecMessages == InitSocketIO /\ [][NextMessages]_vars

\* The channel with the two convenience senders.
NextSend ==
    \/ \E a \in Numbers, b \in Numbers, now \in Clock :
          NoneFailing /\ SendAddNumbers(a, b, now)
    \/ \E now \in Clock : NoneFailing /\ SendHealthCheck(now)
    \/ NextBrowser

SpecSend == Init /\ [][NextSend]_vars

\* The channel together with its observers: the caller subscribes and
\* unsubscribes between the channel's steps.  What a dispatch does depends
\* on the lists and not on how many transports and timers are alive, so
\* here the channel keeps one fewer of each.
Spare == Len(sockets) < MaxSockets /\ Len(timers) < MaxTimers

NextObservers ==
    \/ \E h \in Handlers : NoneFailing /\ OnMessage(h)
    \/ \E h \in Handlers : NoneFailing /\ OnError(h)
    \/ \E h \in Handlers : NoneFailing /\ OnStatusChange(h)
    \/ \E h \in Handlers : NoneFailing /\ UnsubscribeMessage(h)
    \/ \E h \in Handlers : NoneFailing /\ UnsubscribeError(h)
    \/ \E h \in Handlers : NoneFailing /\ UnsubscribeStatus(h)
    \/ NextBrowser /\ Spare'

SpecObservers == Init /\ [][NextObservers]_vars

\* The two services share nothing: each is run with its observers while
\* the other stays as constructed.
NextStatus ==
    \/ sioLast.op = "new" /\ NextObservers
    \/ last.op = "new" /\ NextApp

SpecStatus == InitSocketIO /\ [][NextStatus]_vars

TypeOK ==
    /\ socket \in 0..MaxSockets
    /\ status \in WebSocketStatus
    /\ reconnectAttempts \in 0..maxReconnectAttempts
    /\ Len(timers) <= MaxTimers

\* ------------------------------------------------------------------ claims
Active == {i \in 1..Len(sockets) : sockets[i].readyState \in {CONNECTING, OPEN}}
ReconnectTimers(q) == {i \in 1..Len(q) : q[i].kind = "reconnect"}
RefusedOrProtocolError == {1006, 1002}
NormalClosure == 1000
Retryable(code) == code # NormalClosure /\ code \notin RefusedOrProtocolError

\* C1: disconnect() suppresses an in-flight reconnection: when a scheduled
\* reconnect's delay elapses after the caller's disconnect() (and the caller
\* has not called connect() since), no transport is created and the status
\* stays 'disconnected'.
C1_DisconnectSuppressesReconnect ==
    (last.op = "reconnect" /\ userIntent = "disconnect")
        => (last.created = 0 /\ status = "disconnected")

\* C2: in every reachable state at most one transport created by the channel
\* is CONNECTING or OPEN.
C2_AtMostOneActiveTransport == Cardinality(Active) <= 1

C2_Witness ==
    /\ Len(sockets) = 2
    /\ sockets[1].readyState = CLOSING
    /\ sockets[2].readyState = OPEN
    /\ socket = 2

\* C3: connect() while the current transport is CONNECTING or OPEN creates
\* no transport, notifies nobody and leaves status, retry counter, transport
\* reference and timers unchanged.
C3_ConnectIdempotent ==
    [][(last'.op = "connect" /\ readyStateOf(Cur) \in {CONNECTING, OPEN})
          => /\ last'.created = 0
             /\ last'.notified = <<>>
             /\ last'.errors = 0
             /\ UNCHANGED <<status, reconnectAttempts, socket, sockets,
                            timers>>]_vars

C3_Witness ==
    /\ last.op = "connect"
    /\ last.created = 0
    /\ last.notified = <<>>
    /\ readyStateOf(Cur) = CONNECTING
    /\ Len(sockets) = 1

\* C4: send() writes to the transport only if the status is 'connected'; when
\* the status is 'connecting', 'disconnected' or 'error' it throws and writes
\* nothing.
C4_SendOnlyWhenStatusConnected ==
    last.op = "send"
        => /\ last.wrote # <<>> => status = "connected"
           /\ status # "connected" => (last.threw /\ last.wrote = <<>>)

\* C5: send() on a fresh channel (connect() never called) throws, writes
\* nothing, creates no transport and leaves status 'disconnected' and the
\* retry counter as constructed.
C5_SendOnFreshChannelThrows ==
    (last.op = "send" /\ userIntent = "none")
        => /\ last.threw
           /\ last.wrote = <<>>
           /\ last.created = 0
           /\ last.notified = <<>>
           /\ status = "disconnected"
           /\ reconnectAttempts = 0
           /\ socket = 0
           /\ sockets = <<>>

C5_Witness == last.op = "send" /\ userIntent = "none" /\ last.threw

\* C6: a closure with a retryable code while the retry counter n is below the
\* bound makes the counter n+1 and schedules exactly one reconnect, with
\* delay reconnectDelay * (n+1).
C6_LinearBackoff ==
    [][(last'.op = "close" /\ Retryable(last'.arg)
          /\ reconnectAttempts < maxReconnectAttempts)
          => /\ reconnectAttempts' = reconnectAttempts + 1
             /\ last'.scheduled = <<reconnectDelay * (reconnectAttempts + 1)>>
             /\ Cardinality(ReconnectTimers(timers'))
                   = Cardinality(ReconnectTimers(timers)) + 1
             /\ \E i \in ReconnectTimers(timers') :
                   timers'[i].delay = reconnectDelay * (reconnectAttempts + 1)]_vars

C6_Witness ==
    /\ last.op = "close"
    /\ Retryable(last.arg)
    /\ last.before = 2
    /\ reconnectAttempts = 3
    /\ last.scheduled = <<3000>>

\* C7: once the retry counter is at the bound no closure schedules a
\* reconnect (until a transport opens), and at most maxReconnectAttempts
\* reconnects are scheduled between two consecutive opens.
C7_BoundedReconnects ==
    /\ [][(last'.op = "close" /\ reconnectAttempts = maxReconnectAttempts)
            => /\ last'.scheduled = <<>>
               /\ reconnectAttempts' = maxReconnectAttempts
               /\ Cardinality(ReconnectTimers(timers'))
                     = Cardinality(ReconnectTimers(timers))]_vars
    /\ [](scheduledSinceOpen <= maxReconnectAttempts)

C7_Witness ==
    /\ last.op = "close"
    /\ Retryable(last.arg)
    /\ last.before = maxReconnectAttempts
    /\ last.scheduled = <<>>
    /\ scheduledSinceOpen = maxReconnectAttempts

\* C8: a closure with code 1006 or 1002 schedules no reconnect whatever the
\* remaining budget and forces the retry counter to the bound.
C8_RefusalIsTerminal ==
    [][(last'.op = "close" /\ last'.arg \in RefusedOrProtocolError)
          => /\ last'.scheduled = <<>>
             /\ reconnectAttempts' = maxReconnectAttempts
             /\ Cardinality(ReconnectTimers(timers'))
                   = Cardinality(ReconnectTimers(timers))]_vars

C8_Witness ==
    /\ last.op = "close"
    /\ last.arg = 1002
    /\ last.before = 0
    /\ last.scheduled = <<>>
    /\ reconnectAttempts = maxReconnectAttempts

\* C9: a closure with the normal closure code 1000 schedules no reconnect
\* and does not increment the retry counter.
C9_NormalClosureNoReconnect ==
    (last.op = "close" /\ last.arg = NormalClosure)
        => (last.scheduled = <<>> /\ reconnectAttempts # last.before + 1)

\* C10: when the connection timeout fires on a transport that has not opened,
\* the transport is closed, the status is 'disconnected', the retry counter
\* is at the bound, and no transport is created afterwards unless the caller
\* calls connect() again.
C10_TimeoutIsTerminal ==
    /\ (last.op = "timeout" /\ timedOut)
          => /\ status = "disconnected"
             /\ reconnectAttempts = maxReconnectAttempts
             /\ Active = {}
    /\ timedOut => last.created = 0

\* C11: immediately after the open event of the current transport,
\* getStatus() is 'connected' and isConnected() is true.
C11_OpenMeansConnected ==
    (last.op = "open" /\ last.arg.transport = "current")
        => (getStatus = "connected" /\ isConnected)

C11_Witness ==
    /\ last.op = "open"
    /\ last.arg.transport = "current"
    /\ last.notified = <<"connected">>
    /\ isConnected

\* C12: every open resets the retry counter to zero and cancels the timeout
\* of the connection that opened; no timeout is pending for a transport that
\* has opened, and a timeout that fires never changes the readyState of a
\* transport that has opened.
PendingTimeouts == {i \in 1..Len(timers) : timers[i].kind = "timeout"}
C12_OpenResetsAndCancelsTimeout ==
    /\ [][last'.op = "open" => reconnectAttempts' = 0]_vars
    /\ [](\A i \in PendingTimeouts : ~sockets[timers[i].sock].opened)
    /\ [][last'.op = "timeout"
            => \A i \in 1..Len(sockets) :
                  sockets[i].opened
                     => sockets'[i].readyState = sockets[i].readyState]_vars

\* a stale timeout fires while the transport that opened is the current one
C12_Witness ==
    /\ last.op = "timeout"
    /\ socket # 0
    /\ sockets[socket].opened
    /\ sockets[socket].readyState = OPEN
    /\ status = "connected"
    /\ reconnectAttempts = 0

\* the invocations the step just taken made on one of the lists
CallsTo(which) == SelectSeq(last.calls, LAMBDA c : c.list = which)

\* C13: on a fresh channel, connect() delivers exactly 'connecting' to every
\* registered status observer, and the transport's open event that follows
\* delivers exactly 'connected'; nothing else is delivered.
C13_ConnectingThenConnected ==
    /\ (last.op = "connect" /\ last.arg = "fresh" /\ ctorOk)
          => /\ last.notified = <<"connecting">>
             /\ last.calls = forEach(statusChangeHandlers, "status",
                                     "connecting")
    /\ (last.op = "open" /\ last.arg.first)
          => /\ last.notified = <<"connected">>
             /\ last.calls = forEach(statusChangeHandlers, "status",
                                     "connected")

C13_Witness ==
    /\ last.op = "open"
    /\ last.arg.first
    /\ statusChangeHandlers = <<"h1">>
    /\ last.calls = <<[list |-> "status", handler |-> "h1",
                       arg |-> "connected"]>>

Registry == [message |-> messageHandlers, error |-> errorHandlers,
             status |-> statusChangeHandlers]
Count(list, h) == Cardinality({i \in 1..Len(list) : list[i] = h})

\* C14: the function returned by a subscription removes exactly one
\* registration of its handler: a handler subscribed twice is still
\* registered once after one of its two unsubscribe functions was called.
C14_UnsubscribeRemovesOneRegistration ==
    [][last'.op = "unsubscribe"
         => Count(Registry'[last'.arg.list], last'.arg.handler)
               = Count(Registry[last'.arg.list], last'.arg.handler) - 1]_vars

\* what handing each of args, in turn, to every handler on list invokes
RECURSIVE Dispatch(_, _, _)
Dispatch(list, which, args) ==
    IF args = <<>> THEN <<>>
    ELSE forEach(list, which, Head(args)) \o Dispatch(list, which, Tail(args))

\* C15: the function returned by onStatusChange(h) takes h off the status
\* list and leaves every other registration where it was; h comes back only
\* by subscribing again; and every status transition is handed to exactly
\* the handlers on the list, so never to h and always to the others.
C15_UnsubscribedStatusHandlerIsSilent ==
    /\ [][(last'.op = "unsubscribe" /\ last'.arg.list = "status")
            => /\ ~Registered(statusChangeHandlers', last'.arg.handler)
               /\ \A h \in Handlers \ {last'.arg.handler} :
                     Count(statusChangeHandlers', h)
                        = Count(statusChangeHandlers, h)]_vars
    /\ [][\A h \in Handlers :
             Count(statusChangeHandlers', h) > Count(statusChangeHandlers, h)
                => /\ last'.op = "subscribe"
                   /\ last'.arg = Subscription("status", h)]_vars
    /\ [](CallsTo("status")
             = Dispatch(statusChangeHandlers, "status", last.notified))

C15_Witness ==
    /\ last.op = "unsubscribe"
    /\ last.arg = Subscription("status", "h1")
    /\ statusChangeHandlers = <<"h2">>

\* how many times the step just taken dispatched on each list
Rounds == [message |-> last.delivered, error |-> last.errors,
           status |-> Len(last.notified)]

AddResult == [type |-> "add", data |-> [result |-> 8]]

\* C17: a well-formed inbound message is handed once, as it was sent, to
\* every registration on the message list, and to nobody else.
C17_MessageDeliveredUnmodified ==
    (last.op = "message" /\ last.arg = "json")
        => /\ last.delivered = 1
           /\ Len(last.calls) = Len(messageHandlers)
           /\ \A i \in 1..Len(messageHandlers) :
                 last.calls[i] = [list |-> "message",
                                  handler |-> messageHandlers[i],
                                  arg |-> AddResult]

C17_Witness ==
    /\ last.op = "message"
    /\ last.arg = "json"
    /\ messageHandlers = <<"h1", "h2">>
    /\ Len(last.calls) = 2
    /\ last.calls[2].arg.data.result = 8

\* C18: an inbound payload that does not parse invokes no observer and
\* leaves status, retry counter, transport reference, transports and timers
\* unchanged; the transport it came on is still open, and a well-formed
\* message that follows is delivered.
C18_MalformedPayloadIsDropped ==
    /\ [][(last'.op = "message" /\ ~JSONparses(last'.arg))
            => /\ last'.calls = <<>>
               /\ last'.delivered = 0
               /\ last'.errors = 0
               /\ last'.notified = <<>>
               /\ UNCHANGED <<status, reconnectAttempts, socket, sockets,
                              timers, messageHandlers, errorHandlers,
                              statusChangeHandlers>>]_vars
    /\ []((last.op = "message" /\ ~JSONparses(last.arg))
            => \E id \in 1..Len(sockets) : sockets[id].readyState = OPEN)
    /\ [][(last.op = "message" /\ ~JSONparses(last.arg)
             /\ last'.op = "message" /\ JSONparses(last'.arg))
            => /\ last'.delivered = 1
               /\ Len(last'.calls) = Len(messageHandlers)]_vars

C18_Witness ==
    /\ last.op = "message"
    /\ last.arg = "garbage"
    /\ messageHandlers = <<"h1">>
    /\ errorHandlers = <<"h2">>
    /\ last.calls = <<>>
    /\ status = "connected"

\* C19: a transport error event invokes every registration on the error
\* list once and nobody else, sets the status to 'error', leaves the retry
\* counter unchanged and schedules no reconnect.
C19_ErrorEventOnlyReports ==
    [][last'.op = "error"
         => /\ last'.errors = 1
            /\ Len(CallsTo("error"))' = Len(errorHandlers)
            /\ \A i \in 1..Len(errorHandlers) :
                  CallsTo("error")'[i].handler = errorHandlers[i]
            /\ Len(CallsTo("message"))' = 0
            /\ status' = "error"
            /\ reconnectAttempts' = reconnectAttempts
            /\ last'.scheduled = <<>>
            /\ last'.created = 0
            /\ Cardinality(ReconnectTimers(timers'))
                  = Cardinality(ReconnectTimers(timers))]_vars

C19_Witness ==
    /\ last.op = "error"
    /\ errorHandlers = <<"h1", "h2">>
    /\ Len(CallsTo("error")) = 2
    /\ status = "error"
    /\ reconnectAttempts = 0

\* C20: whatever the state disconnect() is called in, when it returns the
\* status is 'disconnected', isConnected() is false, the transport
\* reference is null, no transport (so not the one that was held) is
\* CONNECTING or OPEN, and the retry counter is at the bound.
C20_DisconnectPostcondition ==
    last.op = "disconnect"
        => /\ getStatus = "disconnected"
           /\ ~isConnected
           /\ socket = 0
           /\ Active = {}
           /\ reconnectAttempts = maxReconnectAttempts

\* disconnect() with an open transport
C20_Witness ==
    /\ last.op = "disconnect"
    /\ last.notified = <<"disconnected">>
    /\ socket = 0
    /\ \E i \in 1..Len(sockets) :
          sockets[i].opened /\ sockets[i].readyState = CLOSING
    /\ reconnectAttempts = maxReconnectAttempts

\* C21: a second disconnect() right after a first leaves status, retry
\* counter, transport reference, transports and timers as they were, throws
\* nothing and notifies nobody.
C21_DisconnectIdempotent ==
    [][(last.op = "disconnect" /\ last'.op = "disconnect")
         => /\ UNCHANGED <<status, reconnectAttempts, socket, sockets, timers>>
            /\ last'.notified = <<>>
            /\ last'.calls = <<>>
            /\ ~last'.threw]_vars

\* the second of two disconnect() calls made while a transport was open
C21_Witness ==
    /\ last.op = "disconnect"
    /\ last.arg = "repeated"
    /\ last.notified = <<>>
    /\ \E i \in 1..Len(sockets) :
          sockets[i].opened /\ sockets[i].readyState = CLOSING

\* C23: when a scheduled reconnect's delay elapses, a transport is created
\* only if the status is 'disconnected'; with any other status the callback
\* creates nothing, notifies nobody and changes nothing.
C23_ReconnectOnlyWhenDisconnected ==
    [][last'.op = "reconnect"
         => /\ last'.created > 0 => status = "disconnected"
            /\ status # "disconnected"
                  => /\ last'.created = 0
                     /\ last'.notified = <<>>
                     /\ last'.errors = 0
                     /\ timers' = Tail(timers)
                     /\ UNCHANGED <<status, reconnectAttempts, socket,
                                    sockets>>]_vars

C23_Witness ==
    /\ last.op = "reconnect"
    /\ last.created = 0
    /\ status = "connected"
    /\ isConnected

\* C22: with the transport open, sendAddNumbers(a, b) makes exactly one
\* write, of the text of {type: 'add', data: {a, b}, timestamp: <number>},
\* and sendHealthCheck() exactly one, of {type: 'health', timestamp:
\* <number>}; neither throws, notifies or changes status or retry counter.
C22_ConvenienceSendersWriteOnce ==
    /\ [][(last'.op = "sendAddNumbers" /\ isConnected)
            => /\ Len(last'.wrote) = 1
               /\ DOMAIN last'.wrote[1].json = {"type", "data", "timestamp"}
               /\ last'.wrote[1].json.type = "add"
               /\ last'.wrote[1].json.data
                     = [a |-> last'.arg.a, b |-> last'.arg.b]
               /\ last'.wrote[1].json.timestamp \in Nat
               /\ ~last'.threw
               /\ last'.notified = <<>>
               /\ UNCHANGED <<status, reconnectAttempts>>]_vars
    /\ [][(last'.op = "sendHealthCheck" /\ isConnected)
            => /\ Len(last'.wrote) = 1
               /\ DOMAIN last'.wrote[1].json = {"type", "timestamp"}
               /\ last'.wrote[1].json.type = "health"
               /\ last'.wrote[1].json.timestamp \in Nat
               /\ ~last'.threw
               /\ last'.notified = <<>>
               /\ UNCHANGED <<status, reconnectAttempts>>]_vars

\* sendAddNumbers(5, 3) while connected
C22_Witness ==
    /\ last.op = "sendAddNumbers"
    /\ last.arg.a = 5
    /\ last.arg.b = 3
    /\ status = "connected"
    /\ Len(last.wrote) = 1
    /\ last.wrote[1].json.data = [a |-> 5, b |-> 3]

\* C24: connect() and disconnect() never throw (only the senders do); when
\* new WebSocket throws inside connect(), the status becomes 'error', every
\* registration on the error list is invoked once, no transport is created,
\* and transport reference and retry counter stay as they were.
C24_FailuresAreReportedNotThrown ==
    /\ [](last.threw
            => last.op \in {"send", "sendAddNumbers", "sendHealthCheck"})
    /\ [][(~ctorOk /\ connectCreates(Cur) /\ last'.op = "connect")
            => /\ status' = "error"
               /\ last'.errors = 1
               /\ Len(CallsTo("error"))' = Len(errorHandlers)
               /\ \A i \in 1..Len(errorHandlers) :
                     CallsTo("error")'[i].handler = errorHandlers[i]
               /\ last'.created = 0
               /\ ~last'.threw
               /\ UNCHANGED <<socket, sockets, reconnectAttempts>>]_vars

C24_Witness ==
    /\ ~ctorOk
    /\ last.op = "connect"
    /\ last.notified = <<"connecting", "error">>
    /\ errorHandlers = <<"h1", "h2">>
    /\ Len(CallsTo("error")) = 2
    /\ status = "error"
    /\ ~last.threw

Quiescent ==
    /\ timers = <<>>
    /\ \A i \in 1..Len(sockets) : sockets[i].readyState # CONNECTING
    /\ status \in {"disconnected", "error"}

\* C25: against an endpoint that never accepts, after the caller's single
\* connect() the channel creates at most 1 + maxReconnectAttempts transports
\* and reaches, and stays in, a state with no pending timer, no CONNECTING
\* transport and status 'disconnected' or 'error'.
C25_NoReconnectLoop ==
    /\ [](transports <= 1 + maxReconnectAttempts)
    /\ <>[]Quiescent

\* the sixth transport has closed and nothing is pending
C25_Witness ==
    /\ transports = 1 + maxReconnectAttempts
    /\ Quiescent
    /\ reconnectAttempts = maxReconnectAttempts

\* C26: the count starts at 0 and after n clicks of the increment button
\* the display shows n mod 10.
C26_CountIsClicksModTen ==
    /\ clicks = 0 => count = 0
    /\ count = clicks % 10
    /\ display(count) = "Count: " \o ToString(clicks % 10)

\* the twentieth click
C26_Witness ==
    /\ clicks = 20
    /\ count = 0
    /\ display(count) = "Count: 0"

\* C28: getHealth() and getWelcome(): a response that is not ok, with status
\* s, rejects the call with the message 'HTTP error! status: s' and the body
\* is never read; an ok response resolves the call with the parsed body.
C28_StatusDecidesHealthAndWelcome ==
    (api.call \in {"getHealth", "getWelcome"}
       /\ api.response.failure = NoFailure)
        => /\ ~responseOk(api.response)
                => /\ api.outcome.state = "rejected"
                   /\ api.outcome.reason.message
                         = "HTTP error! status: " \o ToString(api.response.status)
                   /\ api.outcome.reads = 0
           /\ (responseOk(api.response) /\ api.response.body.valid)
                => /\ api.outcome.state = "fulfilled"
                   /\ api.outcome.value = api.response.body.value

C28_Witness ==
    /\ api.call = "getHealth"
    /\ api.response.failure = NoFailure
    /\ api.response.status = 500
    /\ api.response.body.valid
    /\ api.outcome.state = "rejected"
    /\ api.outcome.reason.message = "HTTP error! status: 500"

\* C29: addNumbers(a, b): a response that is not ok rejects the call, with
\* the text of the body's error field, or with 'HTTP error! status: s' when
\* the body has no such text; it never resolves the call.
ErrorText(body) ==
    IF "error" \in DOMAIN body.value THEN body.value.error ELSE ""

C29_AddNumbersReportsServerError ==
    (api.call = "addNumbers" /\ api.response.failure = NoFailure
       /\ ~responseOk(api.response))
        => /\ api.outcome.state = "rejected"
           /\ api.response.body.valid
                => api.outcome.reason.message
                     = IF ErrorText(api.response.body) # ""
                       THEN ErrorText(api.response.body)
                       ELSE "HTTP error! status: "
                               \o ToString(api.response.status)

C29_Witness ==
    /\ api.call = "addNumbers"
    /\ api.response.failure = NoFailure
    /\ api.response.status = 400
    /\ api.response.body = [valid |-> TRUE,
                            value |-> [error |-> "Invalid parameters"]]
    /\ api.outcome.state = "rejected"
    /\ api.outcome.reason.message = "Invalid parameters"

\* Socket objects that are connecting, reconnecting or connected
IoActive == {i \in 1..Len(ioSockets) :
                ioSockets[i].active \/ ioSockets[i].connected}

\* the listeners for an event that a live Socket holds or that are queued
Listening(e, h) ==
    Count(sio.pendingListeners, Listener(e, h))
      + Len(SelectSeq([i \in 1..Len(ioSockets) |->
                          IF i \in IoActive
                          THEN Count(ioSockets[i].listeners, Listener(e, h))
                          ELSE 0],
                      LAMBDA n : n > 0))

\* how many times each of the component's five handlers is registered
Registered5(h) ==
    <<Count(sio.statusChangeHandlers, h), Count(sio.messageHandlers, h),
      Count(sio.errorHandlers, h), Listening("add-result", h),
      Listening("health-response", h)>>

Closures == {Closure(k) : k \in 1..MaxMounts}

\* C27: after the second mount of a mount, unmount, mount sequence each of
\* the component's five handlers is registered exactly once and at most one
\* transport is active; after any unmount none of the component's handlers
\* is registered and no transport is connecting or connected.
C27_MountAndUnmountAreClean ==
    /\ (sioLast.op = "mount" /\ app.mounts >= 2)
          => /\ Registered5(sioLast.arg) = <<1, 1, 1, 1, 1>>
             /\ \A h \in Closures \ {sioLast.arg} :
                   Registered5(h) = <<0, 0, 0, 0, 0>>
             /\ Cardinality(IoActive) <= 1
    /\ sioLast.op = "unmount"
          => /\ \A h \in Closures : Registered5(h) = <<0, 0, 0, 0, 0>>
             /\ IoActive = {}

\* connect() called while the socket was connected or active did nothing
ConnectWhileBusyIsNoOp ==
    (sioLast.op = "connect" /\ sioLast.busy)
        => /\ sioLast.created = 0
           /\ sioLast.notified = <<>>
           /\ sioLast.calls = <<>>
           /\ \A i \in 1..Len(ioSockets) : ioSockets[i].own = 1

\* C30 as stated: connect() is a no-op when the socket is connected or
\* active (no second Socket, no duplicate listeners, no status
\* notification), so connect() calls without a disconnect() in between
\* yield exactly one Socket instance.
C30_RepeatedConnectYieldsOneSocket ==
    /\ ConnectWhileBusyIsNoOp
    /\ (sioLast.op = "connect" /\ ioOk) => Len(ioSockets) - ioMark = 1

\* C30, amended: connect() is a no-op when the socket is connected or
\* active (no second Socket, no duplicate listeners, no status
\* notification), so at most one Socket is connected or active at a time;
\* a connect() that finds the socket neither connected nor active creates
\* a new Socket, with or without a disconnect() in between.
C30_ConnectIsNoOpWhileConnectedOrActive ==
    /\ ConnectWhileBusyIsNoOp
    /\ Cardinality(IoActive) <= 1
    /\ (sioLast.op = "connect" /\ ioOk /\ ~sioLast.busy)
          => sioLast.created = 1

C30_Witness ==
    /\ sioLast.op = "connect"
    /\ sioLast.busy
    /\ sio.status = "error"
    /\ Len(ioSockets) = 1
    /\ ioSockets[1].active /\ ~ioSockets[1].connected

\* what a sending step is to transmit
Asked ==
    CASE sioLast.op = "sendHealthCheck" ->
            {[event |-> "health", data |-> Undefined]}
      [] sioLast.op = "sendAddNumbers" ->
            {[event |-> "add", data |-> [a |-> a, b |-> b]]
                : a \in {x \in Numbers : \E y \in Numbers :
                                            sioLast.arg = Pair(x, y)},
                  b \in {y \in Numbers : \E x \in Numbers :
                                            sioLast.arg = Pair(x, y)}}
      [] OTHER -> {[event |-> sioLast.arg, data |-> d] : d \in EmitData}

SioSends == {"emit", "sendAddNumbers", "sendHealthCheck"}

\* C31: emit, sendAddNumbers and sendHealthCheck transmit, once and what
\* they were asked to, while the socket is connected; in every other state
\* (no socket yet, connecting, reconnecting, after disconnect()) they throw
\* 'Socket.IO is not connected' and transmit nothing.
C31_EmitOnlyWhileConnected ==
    sioLast.op \in SioSends
        => IF sio_isConnected(SioCur)
           THEN /\ sioLast.threw = ""
                /\ Len(sioLast.emitted) = 1
                /\ sioLast.emitted[1] \in Asked
           ELSE /\ sioLast.threw = "Socket.IO is not connected"
                /\ sioLast.emitted = <<>>

C31_Witness ==
    /\ sioLast.op = "sendAddNumbers"
    /\ sio.socket = 0
    /\ ioMark = 1
    /\ sioLast.threw = "Socket.IO is not connected"

\* C32: in every reachable state isConnected() is true exactly when
\* getStatus() is 'connected'.
C32_StatusAgreesWithTransport == isConnected <=> (getStatus = "connected")

\* the close or error event of transport id, the channel holding another one
LateEvent(id) ==
    /\ socket # 0
    /\ id # socket
    /\ userIntent = "connect"
    /\ \/ TransportError(id)
       \/ \E code \in CloseCodes, k \in 0..MaxTimers : TransportClose(id, code, k)

\* C33: once disconnect() and connect() have installed a new transport, a
\* late close or error event of the old transport changes neither the
\* status nor the retry counter and schedules no reconnect.
C33_SupersededTransportIsIgnored ==
    [][\A id \in 1..MaxSockets :
          LateEvent(id) => /\ status' = status
                           /\ reconnectAttempts' = reconnectAttempts
                           /\ last'.scheduled = <<>>]_vars

\* C34: the connection timeout armed by one connect() call closes only the
\* transport that call created: when it fires while the channel holds a
\* transport created by a later connect(), that transport is left as it is.
C34_TimeoutClosesOnlyItsOwnTransport ==
    [][(TimeoutFires /\ socket # 0 /\ Head(timers).sock # socket)
          => /\ socket' # 0
             /\ sockets'[socket'].readyState = sockets[socket].readyState]_vars

\* C35: the retry counter stays within 0..maxReconnectAttempts and changes
\* only by +1 on a retryable closure, to 0 on an open event, and to the
\* bound on disconnect(), on a timeout or on a terminal closure.
C35_RetryCounterChanges ==
    [][/\ reconnectAttempts' \in 0..maxReconnectAttempts
       /\ reconnectAttempts' # reconnectAttempts
             => \/ /\ last'.op = "close"
                   /\ Retryable(last'.arg)
                   /\ reconnectAttempts' = reconnectAttempts + 1
                \/ /\ last'.op = "open"
                   /\ reconnectAttempts' = 0
                \/ /\ \/ last'.op \in {"disconnect", "timeout"}
                      \/ /\ last'.op = "close"
                         /\ last'.arg \in RefusedOrProtocolError
                   /\ reconnectAttempts' = maxReconnectAttempts]_vars

\* no value of the sequence is followed by the same value
NoRepeat(seq) == \A i \in 1..(Len(seq) - 1) : seq[i] # seq[i + 1]

\* the status invocations a step made
StatusCalls(calls) == SelectSeq(calls, LAMBDA c : c.list = "status")

\* A step notified only changes of the status, ending at the status it left,
\* and each notification went to every registered status observer once.
OnlyChanges(before, after, notified, calls, handlers) ==
    /\ NoRepeat(<<before>> \o notified)
    /\ notified # <<>> => notified[Len(notified)] = after
    /\ before # after => notified # <<>>
    /\ StatusCalls(calls) = Dispatch(handlers, "status", notified)

\* C36: both services notify their status observers only when the status
\* changes: the values an observer receives never repeat, and each is the
\* new value of getStatus().
C36_StatusNotifiedOnlyOnChange ==
    [][/\ UNCHANGED socketIOVars
             => OnlyChanges(status, status', last'.notified, last'.calls,
                            statusChangeHandlers')
       /\ ~UNCHANGED <<sio, sioLast>>
             => OnlyChanges(sio.status, sio'.status, sioLast'.notified,
                            sioLast'.calls, sio'.statusChangeHandlers)]_vars

C36_Witness ==
    /\ last.op = "close"
    /\ userIntent = "disconnect"
    /\ statusChangeHandlers # <<>>
    /\ last.notified = <<>>
    /\ status = "disconnected"

\* C37: a listener registered with on() while there is no socket is queued,
\* and the next connect() that creates the socket attaches every queued
\* listener to it once and empties the queue; a listener whose unsubscribe
\* function was called while it was queued is no longer queued, so it is
\* never attached; a listener registered while a socket exists is attached
\* to it at once and is not queued.
C37_ListenersQueuedUntilConnect ==
    [][/\ \A e \in {"add-result"}, h \in Handlers :
             /\ (SioOn(e, h) /\ sio.socket = 0)
                   => /\ sio'.pendingListeners
                            = Append(sio.pendingListeners, Listener(e, h))
                      /\ ioSockets' = ioSockets
             /\ (SioOn(e, h) /\ sio.socket # 0)
                   => /\ ioSockets'[sio.socket].listeners
                            = Append(ioSockets[sio.socket].listeners,
                                     Listener(e, h))
                      /\ sio'.pendingListeners = <<>>
             /\ (SioUnsubscribeOn(e, h) /\ sio.socket = 0)
                   => /\ Listener(e, h) \notin Held(sio'.pendingListeners)
                      /\ ioSockets' = ioSockets
       /\ (SioConnect /\ sioLast'.created = 1)
             => /\ ioSockets'[sio'.socket].listeners = sio.pendingListeners
                /\ sio'.pendingListeners = <<>>
       /\ sio'.socket # 0 => sio'.pendingListeners = <<>>]_vars

C37_Witness ==
    /\ sioLast.op = "connect"
    /\ sioLast.created = 1
    /\ ioMark = 1
    /\ sio.pendingListeners = <<>>
    /\ ioSockets[sio.socket].listeners = <<Listener("add-result", "h2")>>

\* the most recent n of the numbers 1..k, in order
Recent(k, n) == [i \in 1..n |-> k - n + i]

\* the list is the most recent min(k, 10) of the k messages given so far
LastTen ==
    LET k == app.received
        n == IF k < 10 THEN k ELSE 10
    IN /\ Len(app.socketMessages) <= 10
       /\ Len(app.socketMessages) = n
       /\ [i \in 1..n |-> app.socketMessages[i].n] = Recent(k, n)

\* every message a step hands the observer is at the end of the list
EachMessageIsAppended ==
    \A id \in 1..MaxIoSockets, e \in ServerEvents :
       IoEvent(id, e) =>
             LET given == SelectSeq(sioLast'.calls,
                                    LAMBDA c : c.list = "message")
                 m == Len(given)
                 l == Len(app'.socketMessages)
             IN /\ app'.received = app.received + m
                /\ l >= (IF m < 10 THEN m ELSE 10)
                /\ \A i \in 1..m : app'.socketMessages[l - m + i].type
                                        = given[i].arg

\* C38: the App's list of recent socket messages never holds more than 10
\* entries, and after each message its message observer is given it is the
\* most recent min(k, 10) of the k messages given so far, in the order of
\* their arrival.
C38_RecentMessagesAreTheLastTen ==
    []LastTen /\ [][EachMessageIsAppended]_vars

C38_Witness ==
    /\ app.received = 12
    /\ Len(app.socketMessages) = 10
    /\ app.socketMessages[1].n = 3
    /\ app.socketMessages[10].type = "welcome"
    /\ sioLast.op = "event"

\* the count is one of 0..9 and MAX_COUNT is neither stored nor shown
CountInRange ==
    /\ count \in 0..(MAX_COUNT - 1)
    /\ count # MAX_COUNT
    /\ display(count) # "Count: " \o ToString(MAX_COUNT)
    /\ display(count) \in {"Count: " \o ToString(n) : n \in 0..9}

\* C39: in every reachable state the count is an integer from 0 to 9, the
\* value MAX_COUNT (10) is never stored in it or shown as the count, and
\* only a click of the increment button changes it.
C39_CountStaysBelowMax ==
    []CountInRange /\ [][count' # count => HandleIncrement]_vars

C39_Witness ==
    /\ count = 0
    /\ clicks = MAX_COUNT
    /\ app.mounted
    /\ sio.status = "connected"

====
